---------------------------- MODULE Spec2Model ----------------------------
(***************************************************************************)
(* Model of pytogo/portforward (src/portforward/portforward.go): the       *)
(* process-wide registry of active forwards (activeForwards + mutex),      *)
(* Forward / StopForwarding, the per-Forward signal watcher                *)
(* (closeOnSigterm), the two background goroutines of startForward with    *)
(* the local port their tunnel listens on, the target resolution of        *)
(* prepareForward and the URL construction of newDialer.                   *)
(*                                                                         *)
(* Go strings are modelled as sequences of one-character strings, so that  *)
(* fmt.Sprintf and strings.Contains are computed, not assumed.             *)
(* A stop channel (chan struct{}) is a handle in Handles; closing it is *)
(* counted in closeCalls, and a close of a closed channel panics.          *)
(***************************************************************************)
EXTENDS Naturals, Sequences, FiniteSets

(* ------------------------------ bounds -------------------------------- *)

\* callers (threads of the embedding program) that may call concurrently
NumCallers == 2
\* stop channels Forward may make (one per call reaching line 109)
MaxForwards == 2
\* stop channels made for direct calls of registerForwarding
MaxRegisters == 3
\* stop channels in the specification of the background goroutines
MaxSessions == 2

MaxOf(S) == CHOOSE x \in S : \A y \in S : y <= x

Callers == 1..NumCallers
Handles == 1..MaxOf({MaxForwards, MaxRegisters, MaxSessions})
NoHandle == 0

(* ------------------------------ strings ------------------------------- *)

\* strings.Contains(s, substr)
Contains(s, substr) ==
    \E i \in 0..(Len(s) - Len(substr)) :
        SubSeq(s, i + 1, i + Len(substr)) = substr

\* key := fmt.Sprintf("%s/%s", namespace, podOrService)
Key(namespace, podOrService) == namespace \o <<"/">> \o podOrService

\* (namespace, podOrService) arguments of Forward / StopForwarding
Targets ==
    { << <<"t">>, <<"w","e","b">> >>,
      << <<"t">>, <<"d","b">> >> }

\* arguments given directly to registerForwarding / StopForwarding: any Go
\* strings, a "/" included
RegPairs ==
    { << <<"a">>,         <<"b","/","c">> >>,
      << <<"a","/","b">>, <<"c">> >>,
      << <<"a">>,         <<"c">> >> }

\* the fromPort argument of Forward: each target is forwarded from a local
\* port of its own, so two sessions of one key ask for the same local port
fromPort(t) == IF t[2] = <<"w","e","b">> THEN "8080" ELSE "5432"
LocalPorts == { fromPort(t) : t \in Targets }

AllPairs == Targets \cup RegPairs
AllKeys == { Key(t[1], t[2]) : t \in AllPairs }

\* the first position of s that holds a character outside cutset, or
\* Len(s) + 1 when there is none
FirstOutside(s, cutset) ==
    LET outside == { i \in 1..Len(s) : \A j \in 1..Len(cutset) : s[i] # cutset[j] }
    IN  IF outside = {} THEN Len(s) + 1
        ELSE CHOOSE i \in outside : \A j \in outside : i <= j

\* strings.TrimLeft(s, cutset): s without the leading characters that are
\* contained in cutset (cutset is a set of characters, not a prefix)
TrimLeft(s, cutset) == SubSeq(s, FirstOutside(s, cutset), Len(s))

\* strings.SplitN(s, sep, 2) for a one-character sep: s cut at the first sep,
\* or s alone when it holds no sep
SplitN2(s, sep) ==
    LET at == { i \in 1..Len(s) : s[i] = sep }
    IN  IF at = {} THEN <<s>>
        ELSE LET i == CHOOSE i \in at : \A j \in at : i <= j
             IN  <<SubSeq(s, 1, i - 1), SubSeq(s, i + 1, Len(s))>>

\* the cutset of line 190
HttpsCutset == <<"h","t","t","p","s",":","/","/">>

\* fmt.Sprintf("/api/v1/namespaces/%s/%s/%s/portforward", namespace, resType,
\* podOrService), line 189
PortforwardPath(namespace, resType, podOrService) ==
    <<"/","a","p","i","/","v","1","/","n","a","m","e","s","p","a","c","e","s","/">> \o namespace \o <<"/">>
        \o resType \o <<"/">> \o podOrService \o <<"/","p","o","r","t","f","o","r","w","a","r","d">>

\* cluster hosts (rest.Config.Host): "https://" and an authority, with or
\* without a path
HttpsScheme == <<"h","t","t","p","s",":","/","/">>
Authorities ==
    { <<"1",".","2",".","3",".","4",":","6","4","4","3">>,
      <<"p","r","o","x","y",".","e","x","a","m","p","l","e">>,
      <<"1","0",".","0",".","0",".","7">>,
      <<"k","8","s",".","l","o","c","a","l">>,
      <<"a","p","i",".","d","e","v",":","4","4","3">> }
NoPrefix == <<>>
Prefixes ==
    { NoPrefix,
      <<"a","p","i","/","c","l","u","s","t","e","r","s","/","c","1">>,
      <<"k","8","s">> }
ResTypes == { <<"s","e","r","v","i","c","e","s">>, <<"p","o","d","s">> }

\* the host of a cluster at authority, behind the path prefix if there is one
ClusterHost(authority, prefix) ==
    HttpsScheme \o authority
        \o (IF prefix = NoPrefix THEN <<>> ELSE <<"/">> \o prefix)

(* ------------------------------ logger -------------------------------- *)

Debug == 0
Info == 1
Warn == 2
Error == 3
Off == 4
LogLevels == Debug..Off

\* func (l *logger) isOff() bool
isOff(level) == level = Off

\* overwriteLog: runtime.ErrorHandlers = make([]func(error), 0) when the
\* logger is off; the value of the process-wide variable after the call
overwriteLog(level, handlers) ==
    IF ~isOff(level) THEN handlers ELSE "empty"

(* --------------------- errors of the collaborators --------------------- *)

\* A Go error: what kind of failure the collaborator reports (the reason of
\* its status) and the text err.Error() returns. Nil is the nil error.
Nil == [reason |-> "nil", msg |-> <<>>]

\* services/pods "x" not found (StatusReasonNotFound)
ErrNotFound ==
    [reason |-> "NotFound", msg |-> 
        <<"s","e","r","v","i","c","e","s"," ","'","x","'"," ","n","o","t"," ","f","o","u","n","d">>]
\* a plain authorization failure
ErrForbidden ==
    [reason |-> "Forbidden", msg |-> <<"f","o","r","b","i","d","d","e","n">>]
\* an authorization failure whose text names a missing RBAC role:
\* ... is forbidden: ... RBAC: role "r" not found
ErrForbiddenRole ==
    [reason |-> "Forbidden", msg |-> 
        <<"f","o","r","b","i","d","d","e","n",":"," ","r","o","l","e"," ","n","o","t"," ","f","o","u","n","d">>]
\* a network failure
ErrTimeout ==
    [reason |-> "Timeout", msg |-> 
        <<"i","/","o"," ","t","i","m","e","o","u","t">>]
\* kubernetes.NewForConfig rejects the configuration
ErrBadConfig ==
    [reason |-> "BadConfig", msg |-> 
        <<"i","n","v","a","l","i","d"," ","c","o","n","f","i","g","u","r","a","t","i","o","n">>]

\* what a Get of the services or pods client may return
LookupErrors == {Nil, ErrNotFound, ErrForbidden, ErrForbiddenRole, ErrTimeout}
ClientsetErrors == {Nil, ErrBadConfig}

\* errors.New(fmt.Sprintf("no service or pod with name %s found", podOrService))
NoServiceOrPod(podOrService) ==
    [reason |-> "errorString",
     msg |-> 
        <<"n","o"," ","s","e","r","v","i","c","e"," ","o","r"," ","p","o","d"," ","w","i","t","h"," ","n","a","m","e"," ">> \o podOrService \o <<" ","f","o","u","n","d">>]

\* the test of lines 159 and 169: strings.Contains(err.Error(), "not found")
NotFoundText == <<"n","o","t"," ","f","o","u","n","d">>
LooksNotFound(err) == Contains(err.msg, NotFoundText)

\* prepareForward: the resource type, the error, and the lookups it made
prepareForward(clientErr, svcErr, podErr, podOrService) ==
    IF clientErr # Nil
    THEN [resType |-> "", err |-> clientErr, lookups |-> <<>>]
    ELSE IF svcErr = Nil
    THEN [resType |-> "services", err |-> Nil, lookups |-> <<"services">>]
    ELSE IF ~LooksNotFound(svcErr)
    THEN [resType |-> "", err |-> svcErr, lookups |-> <<"services">>]
    ELSE IF podErr = Nil
    THEN [resType |-> "pods", err |-> Nil, lookups |-> <<"services", "pods">>]
    ELSE IF ~LooksNotFound(podErr)
    THEN [resType |-> "", err |-> podErr, lookups |-> <<"services", "pods">>]
    ELSE [resType |-> "", err |-> NoServiceOrPod(podOrService),
          lookups |-> <<"services", "pods">>]

(* ------------------------------ newDialer ----------------------------- *)

\* newDialer, lines 183-203: the error, and the Host and Path of serverURL
newDialer(rtErr, host, namespace, resType, podOrService) ==
    IF rtErr # Nil
    THEN [err |-> rtErr, Host |-> <<>>, Path |-> <<>>]
    ELSE LET path == PortforwardPath(namespace, resType, podOrService)
             hostIP == TrimLeft(host, HttpsCutset)
             parts == SplitN2(hostIP, "/")
         IN  IF Len(parts) = 2
             THEN [err |-> Nil, Host |-> parts[1],
                   Path |-> <<"/">> \o parts[2] \o path]
             ELSE [err |-> Nil, Host |-> hostIP, Path |-> path]

(* ------------------------------- state -------------------------------- *)

VARIABLES
    activeForwards,  \* the map of line 43: key -> stop channel
    mutex,           \* the sync.Mutex of line 44: "unlocked" or "locked"
    errorHandlers,   \* k8s runtime.ErrorHandlers: "default" or "empty"
    procState,       \* the process: "running", "panicked" or "killed"
    pc,              \* each caller's position in Forward / StopForwarding
    arg,             \* each caller's (namespace, podOrService)
    myCh,            \* each caller's stopChan (line 109)
    nextCh,          \* how many stop channels have been made
    chPair,          \* the (namespace, podOrService) a channel was made for
    closeCalls,      \* how many times close(ch) was executed on a channel
    loop,            \* goroutine of lines 226-230, per channel
    monitor,         \* goroutine of lines 214-223, per channel
    readyClosed,     \* whether the tunnel closed readyChan
    errOut,          \* whether the tunnel wrote to errOut
    listener,        \* the session whose tunnel listens on a local port
    watcher,         \* goroutine of lines 241-246, per channel
    stopInvoked,     \* the keys a watcher has called StopForwarding with
    delivered,       \* history: a signal arrived after the watcher was attached
    caught,          \* history: a signal arrived while the channel was in the map
    regSeq,          \* history: the channels registered under each key
                     \* since its last StopForwarding
    stopRun,         \* history: StopForwarding(key) runs since the last
                     \* register of key, counted up to 2
    replacing,       \* history: when Forward made the channel, its key had
                     \* a live session that listened on the same local port
    resIn,           \* inputs of a prepareForward call
    resOut,          \* its result
    dialIn,          \* inputs of a newDialer call
    dialOut          \* its result

registry == <<activeForwards, mutex, closeCalls>>
history == <<regSeq, stopRun, replacing>>
callers == <<pc, arg, myCh>>
channels == <<nextCh, chPair>>
tasks == <<loop, monitor, readyClosed, errOut, listener>>
watchers == <<watcher, stopInvoked, delivered, caught>>
resolve == <<resIn, resOut>>
dial == <<dialIn, dialOut>>
vars == <<activeForwards, mutex, errorHandlers, procState, pc, arg, myCh,
          nextCh, chPair, closeCalls, loop, monitor, readyClosed, errOut,
          listener,
          watcher, stopInvoked, delivered, caught, regSeq, stopRun, replacing,
          resIn, resOut,
          dialIn, dialOut>>

NoPair == <<>>
NoInput == [target |-> <<>>]

\* the state after the package is initialised (lines 42-45): an empty map
InitProcess ==
    /\ activeForwards = <<>>
    /\ mutex = "unlocked"
    /\ errorHandlers = "default"
    /\ procState = "running"
    /\ pc = [p \in Callers |-> "idle"]
    /\ arg = [p \in Callers |-> NoPair]
    /\ myCh = [p \in Callers |-> NoHandle]
    /\ nextCh = 0
    /\ chPair = [h \in Handles |-> NoPair]
    /\ closeCalls = [h \in Handles |-> 0]
    /\ loop = [h \in Handles |-> "none"]
    /\ monitor = [h \in Handles |-> "none"]
    /\ readyClosed = [h \in Handles |-> FALSE]
    /\ errOut = [h \in Handles |-> FALSE]
    /\ listener = [port \in LocalPorts |-> NoHandle]
    /\ watcher = [h \in Handles |-> "none"]
    /\ stopInvoked = [h \in Handles |-> <<>>]
    /\ delivered = [h \in Handles |-> FALSE]
    /\ caught = [h \in Handles |-> FALSE]
    /\ regSeq = [k \in AllKeys |-> <<>>]
    /\ stopRun = [k \in AllKeys |-> 0]
    /\ replacing = [h \in Handles |-> FALSE]

Init ==
    /\ InitProcess
    /\ resIn = NoInput
    /\ resOut = NoInput
    /\ dialIn = NoInput
    /\ dialOut = NoInput

ChKey(h) == Key(chPair[h][1], chPair[h][2])
\* the local port of the session of a channel (ports, line 111)
ChPort(h) == fromPort(chPair[h])
ArgKey(p) == Key(arg[p][1], arg[p][2])

(* --------------------------- the registry ----------------------------- *)

\* registerForwarding without lines 54-56: the prior channel is not closed
registerForwardingCloses_None(af, key) == {}

\* registerForwarding, lines 54-56: the channels it closes
registerForwardingCloses(af, key) ==
    IF key \in DOMAIN af THEN {af[key]} ELSE {}

\* registerForwarding storing stopCh only under a key that has no entry
registerForwardingMap_KeepFirst(af, key, stopCh) ==
    IF key \in DOMAIN af
    THEN af
    ELSE [k \in (DOMAIN af) \cup {key} |-> IF k = key THEN stopCh ELSE af[k]]

\* registerForwarding, line 58: activeForwards[key] = stopCh
registerForwardingMap(af, key, stopCh) ==
    [k \in (DOMAIN af) \cup {key} |-> IF k = key THEN stopCh ELSE af[k]]

\* StopForwarding without line 69: the entry is deleted, its channel left open
StopForwardingCloses_None(af, key) == {}

\* StopForwarding, lines 68-69: the channels it closes
StopForwardingCloses(af, key) ==
    IF key \in DOMAIN af THEN {af[key]} ELSE {}

\* StopForwarding without line 70: the entry is not deleted
StopForwardingMap_NoDelete(af, key) == af

\* StopForwarding, lines 68-70: delete(activeForwards, key)
StopForwardingMap(af, key) ==
    IF key \in DOMAIN af
    THEN [k \in (DOMAIN af) \ {key} |-> af[k]]
    ELSE af

\* The body of a critical section and the deferred mutex.Unlock(): close the
\* channels, then write the map. close of a closed channel panics, and the
\* statements after it do not run.
CriticalSection(closes, newMap) ==
    /\ closeCalls' = [h \in Handles |->
                        IF h \in closes THEN closeCalls[h] + 1 ELSE closeCalls[h]]
    /\ IF \E h \in closes : closeCalls[h] >= 1
       THEN /\ procState' = "panicked"
            /\ activeForwards' = activeForwards
       ELSE /\ procState' = procState
            /\ activeForwards' = newMap
    /\ mutex' = "unlocked"

\* registerForwarding, lines 54-59, with the mutex held
registerForwarding(key, stopCh) ==
    CriticalSection(registerForwardingCloses(activeForwards, key),
                    registerForwardingMap(activeForwards, key, stopCh))

\* StopForwarding, lines 68-72, with the mutex held
StopForwarding(key) ==
    CriticalSection(StopForwardingCloses(activeForwards, key),
                    StopForwardingMap(activeForwards, key))

\* whether the map holds the channel under some key
InMap(af, h) == \E k \in DOMAIN af : af[k] = h

Min(a, b) == IF a <= b THEN a ELSE b
Last(s) == s[Len(s)]

(* ----------------------------- Forward -------------------------------- *)

\* Forward is called for a key that has a live session on the same local
\* port: the key's entry is a channel whose Forward call has returned and
\* whose tunnel listens on the port
HasLiveSession(t) ==
    LET key == Key(t[1], t[2])
    IN  /\ key \in DOMAIN activeForwards
        /\ watcher[activeForwards[key]] # "none"
        /\ listener[fromPort(t)] = activeForwards[key]

ErrLoad == [reason |-> "Load", msg |-> <<"l","o","a","d">>]
ErrTLS == [reason |-> "TLS", msg |-> <<"t","l","s">>]
ErrPorts == [reason |-> "Ports", msg |-> <<"p","o","r","t","s">>]

\* The first error of lines 85-115, Nil when there is none: loadConfig,
\* prepareForward, newDialer (spdy.RoundTripperFor), startForward
\* (portforward.New).
FirstError(cfgErr, prep, dialErr, newErr) ==
    IF cfgErr # Nil THEN cfgErr
    ELSE IF prep.err # Nil THEN prep.err
    ELSE IF dialErr # Nil THEN dialErr
    ELSE newErr

\* whether lines 85-115 fail, over the collaborators' answers
SyncFails ==
    { FirstError(c[1], prepareForward(c[2], c[3], c[4], <<"w">>), c[5], c[6]) # Nil :
        c \in {Nil, ErrLoad} \X ClientsetErrors \X LookupErrors \X LookupErrors
              \X {Nil, ErrTLS} \X {Nil, ErrPorts} }

\* Forward, lines 79-115, returning an error (lines 88, 98, 105, 114)
ForwardFails(p) ==
    /\ procState = "running"
    /\ pc[p] = "idle"
    /\ TRUE \in SyncFails
    /\ \E level \in LogLevels :
        errorHandlers' = overwriteLog(level, errorHandlers)
    /\ UNCHANGED <<registry, history, procState, callers, channels, tasks,
                   watchers, resolve, dial>>

\* Forward, lines 79-115, without an error: a fresh stopChan is made and the
\* two goroutines of startForward are started; Forward goes on to line 118
ForwardLaunches(p, t, limit) ==
    /\ procState = "running"
    /\ pc[p] = "idle"
    /\ FALSE \in SyncFails
    /\ nextCh < limit
    /\ \E level \in LogLevels :
        errorHandlers' = overwriteLog(level, errorHandlers)
    /\ nextCh' = nextCh + 1
    /\ chPair' = [chPair EXCEPT ![nextCh + 1] = t]
    /\ arg' = [arg EXCEPT ![p] = t]
    /\ myCh' = [myCh EXCEPT ![p] = nextCh + 1]
    /\ monitor' = [monitor EXCEPT ![nextCh + 1] = "drain"]
    /\ loop' = [loop EXCEPT ![nextCh + 1] = "started"]
    /\ pc' = [pc EXCEPT ![p] = "register"]
    /\ replacing' = [replacing EXCEPT ![nextCh + 1] = HasLiveSession(t)]
    /\ UNCHANGED <<registry, regSeq, stopRun, procState, readyClosed, errOut,
                   listener, watchers, resolve, dial>>

\* registerForwarding, line 51: mutex.Lock()
RegisterLock(p) ==
    /\ procState = "running"
    /\ pc[p] = "register"
    /\ mutex = "unlocked"
    /\ mutex' = "locked"
    /\ pc' = [pc EXCEPT ![p] = "registerCS"]
    /\ UNCHANGED <<activeForwards, closeCalls, history, errorHandlers,
                   procState, arg, myCh, channels, tasks, watchers, resolve,
                   dial>>

\* registerForwarding, lines 54-59, called by Forward (line 118)
RegisterBody(p) ==
    /\ procState = "running"
    /\ pc[p] = "registerCS"
    /\ registerForwarding(ArgKey(p), myCh[p])
    /\ pc' = [pc EXCEPT ![p] = "sigterm"]
    /\ UNCHANGED <<history, errorHandlers, arg, myCh, channels, tasks,
                   watchers, resolve, dial>>

\* closeOnSigterm, lines 237-246, and the return of line 121: signal.Notify
\* and a goroutine that waits on sigs
CloseOnSigterm(p) ==
    /\ procState = "running"
    /\ pc[p] = "sigterm"
    /\ watcher' = [watcher EXCEPT ![myCh[p]] = "wait"]
    /\ pc' = [pc EXCEPT ![p] = "idle"]
    /\ arg' = [arg EXCEPT ![p] = NoPair]
    /\ myCh' = [myCh EXCEPT ![p] = NoHandle]
    /\ UNCHANGED <<registry, history, errorHandlers, procState, channels,
                   tasks, stopInvoked, delivered, caught, resolve, dial>>

(* -------------------------- StopForwarding ---------------------------- *)

\* a caller enters StopForwarding(namespace, podOrService) and takes the
\* mutex (line 65)
StopLock(p, t) ==
    /\ procState = "running"
    /\ pc[p] = "idle"
    /\ mutex = "unlocked"
    /\ arg' = [arg EXCEPT ![p] = t]
    /\ mutex' = "locked"
    /\ pc' = [pc EXCEPT ![p] = "stopCS"]
    /\ UNCHANGED <<activeForwards, closeCalls, history, errorHandlers,
                   procState, myCh, channels, tasks, watchers, resolve, dial>>

\* StopForwarding, lines 68-72
StopBody(p) ==
    /\ procState = "running"
    /\ pc[p] = "stopCS"
    /\ StopForwarding(ArgKey(p))
    /\ pc' = [pc EXCEPT ![p] = "idle"]
    /\ arg' = [arg EXCEPT ![p] = NoPair]
    /\ UNCHANGED <<history, errorHandlers, myCh, channels, tasks, watchers,
                   resolve, dial>>

(* --------------------------- signal watcher --------------------------- *)

\* a sigs channel that was never passed to signal.Notify takes no signal
SignalTaken_NoNotify(state) == state

\* what a delivered signal does to a watcher: line 239 registered its
\* channel, so a goroutine waiting on <-sigs (line 243) can go on
SignalTaken(state) == IF state = "wait" THEN "ready" ELSE state

\* The OS delivers SIGINT or SIGTERM. With no signal.Notify registered the Go
\* runtime's default applies and the process is killed; otherwise every
\* registered sigs channel (buffer 1) takes the signal. A signal that finds
\* the buffer full, or whose goroutine has ended, changes nothing.
DeliverSignal ==
    /\ procState = "running"
    /\ IF \A h \in Handles : watcher[h] = "none"
       THEN /\ procState' = "killed"
            /\ UNCHANGED <<watcher, delivered, caught>>
       ELSE /\ procState' = procState
            /\ watcher' = [h \in Handles |-> SignalTaken(watcher[h])]
            /\ delivered' = [h \in Handles |->
                               delivered[h] \/ watcher[h] # "none"]
            /\ caught' = [h \in Handles |->
                            caught[h] \/ InMap(activeForwards, h)]
    /\ UNCHANGED <<registry, history, errorHandlers, callers, channels, tasks,
                   stopInvoked, resolve, dial>>

\* the goroutine of lines 241-246 after StopForwarding has returned: a loop
\* that waits for the next signal
WatcherAfterStop_Loop(h) == "wait"

\* the goroutine of lines 241-246 after StopForwarding has returned: it ends
WatcherAfterStop(h) == "done"

\* the key of the StopForwarding call of line 245: the namespace and name
\* closeOnSigterm was called with
WatcherKey(h) == ChKey(h)

\* lines 243-245: <-sigs returns and StopForwarding is called
WatcherFire(h) ==
    /\ procState = "running"
    /\ watcher[h] = "ready"
    /\ watcher' = [watcher EXCEPT ![h] = "stop"]
    /\ stopInvoked' = [stopInvoked EXCEPT ![h] = Append(@, WatcherKey(h))]
    /\ UNCHANGED <<delivered, caught>>
    /\ UNCHANGED <<registry, history, errorHandlers, procState, callers,
                   channels, tasks, resolve, dial>>

\* StopForwarding called by a watcher, line 65
WatcherLock(h) ==
    /\ procState = "running"
    /\ watcher[h] = "stop"
    /\ mutex = "unlocked"
    /\ mutex' = "locked"
    /\ watcher' = [watcher EXCEPT ![h] = "stopCS"]
    /\ UNCHANGED <<activeForwards, closeCalls, history, errorHandlers,
                   procState, callers, channels, tasks, stopInvoked, delivered,
                   caught, resolve, dial>>

\* line 245 closing the watcher's own session's channel, not the key's
WatcherStop_OwnChannel(h) == CriticalSection({h}, activeForwards)

\* line 245, with the mutex held: StopForwarding(namespace, qualifiedName)
WatcherStop(h) == StopForwarding(Last(stopInvoked[h]))

\* StopForwarding called by a watcher, lines 68-72; the goroutine then ends
WatcherBody(h) ==
    /\ procState = "running"
    /\ watcher[h] = "stopCS"
    /\ WatcherStop(h)
    /\ watcher' = [watcher EXCEPT ![h] = WatcherAfterStop(h)]
    /\ UNCHANGED <<history, errorHandlers, callers, channels, tasks,
                   stopInvoked, delivered, caught, resolve, dial>>

(* ------------------------ background goroutines ----------------------- *)

\* Seen from the registry: a goroutine of startForward panics (lines 219,
\* 228), which ends the process.
BackgroundPanic(h) ==
    /\ procState = "running"
    /\ loop[h] # "none"
    /\ procState' = "panicked"
    /\ UNCHANGED <<registry, history, errorHandlers, callers, channels, tasks,
                   watchers, resolve, dial>>

\* lines 226-227: the goroutine runs and calls forwarder.ForwardPorts()
LoopStart(h) ==
    /\ procState = "running"
    /\ loop[h] = "started"
    /\ loop' = [loop EXCEPT ![h] = "running"]
    /\ UNCHANGED <<registry, history, errorHandlers, procState, callers,
                   channels, monitor, readyClosed, errOut, listener, watchers,
                   resolve, dial>>

\* the tunnel (client-go's ForwardPorts) listens on the local port, which
\* no other listener holds, and closes readyChan
TunnelReady(h) ==
    /\ procState = "running"
    /\ loop[h] = "running"
    /\ ~readyClosed[h]
    /\ listener[ChPort(h)] = NoHandle
    /\ listener' = [listener EXCEPT ![ChPort(h)] = h]
    /\ readyClosed' = [readyClosed EXCEPT ![h] = TRUE]
    /\ UNCHANGED <<registry, history, errorHandlers, procState, callers,
                   channels, loop, monitor, errOut, watchers, resolve, dial>>

\* the tunnel cannot listen, the local port is held by another session's
\* listener: ForwardPorts returns an error (line 227, err != nil)
TunnelListenFails(h) ==
    /\ procState = "running"
    /\ loop[h] = "running"
    /\ ~readyClosed[h]
    /\ listener[ChPort(h)] # NoHandle
    /\ loop' = [loop EXCEPT ![h] = "portInUse"]
    /\ UNCHANGED <<registry, history, errorHandlers, procState, callers,
                   channels, monitor, readyClosed, errOut, listener, watchers,
                   resolve, dial>>

\* the tunnel writes error output to the errOut buffer of line 207
TunnelErrOutput(h) ==
    /\ procState = "running"
    /\ loop[h] = "running"
    /\ ~errOut[h]
    /\ errOut' = [errOut EXCEPT ![h] = TRUE]
    /\ UNCHANGED <<registry, history, errorHandlers, procState, callers,
                   channels, loop, monitor, readyClosed, listener, watchers,
                   resolve, dial>>

\* lines 216-222: the range over readyChan ends when the channel is closed;
\* then errOut is read once: panic if it holds text, else the goroutine ends
MonitorCheck(h) ==
    /\ procState = "running"
    /\ monitor[h] = "drain"
    /\ readyClosed[h]
    /\ IF errOut[h]
       THEN /\ procState' = "panicked"
            /\ UNCHANGED monitor
       ELSE /\ monitor' = [monitor EXCEPT ![h] = "done"]
            /\ UNCHANGED procState
    /\ UNCHANGED <<registry, history, errorHandlers, callers, channels, loop,
                   readyClosed, errOut, listener, watchers, resolve, dial>>

\* the listeners after ForwardPorts of h has returned: it closes its own
Released(h) == [port \in LocalPorts |->
                   IF listener[port] = h THEN NoHandle ELSE listener[port]]

\* ForwardPorts returns nil (line 227, err == nil): stopChan was closed.
\* client-go closes readyChan before it waits for stopChan, and closes its
\* listener when it returns.
LoopReturnsNil(h) ==
    /\ procState = "running"
    /\ loop[h] = "running"
    /\ readyClosed[h]
    /\ closeCalls[h] >= 1
    /\ loop' = [loop EXCEPT ![h] = "returned"]
    /\ listener' = Released(h)
    /\ UNCHANGED <<registry, history, errorHandlers, procState, callers,
                   channels, monitor, readyClosed, errOut, watchers, resolve,
                   dial>>

\* ForwardPorts returns an error (line 227, err != nil)
LoopReturnsError(h) ==
    /\ procState = "running"
    /\ loop[h] = "running"
    /\ loop' = [loop EXCEPT ![h] = "failed"]
    /\ listener' = Released(h)
    /\ UNCHANGED <<registry, history, errorHandlers, procState, callers,
                   channels, monitor, readyClosed, errOut, watchers, resolve,
                   dial>>

\* line 228: panic(err)
LoopPanic(h) ==
    /\ procState = "running"
    /\ loop[h] \in {"failed", "portInUse"}
    /\ procState' = "panicked"
    /\ UNCHANGED <<registry, history, errorHandlers, callers, channels, tasks,
                   watchers, resolve, dial>>

(* --------------------------- specifications --------------------------- *)

\* the program: callers of Forward and StopForwarding, signals, watchers
Next ==
    \/ \E p \in Callers : ForwardFails(p)
    \/ \E p \in Callers, t \in Targets : ForwardLaunches(p, t, MaxForwards)
    \/ \E p \in Callers : RegisterLock(p)
    \/ \E p \in Callers : RegisterBody(p)
    \/ \E p \in Callers : CloseOnSigterm(p)
    \/ \E p \in Callers, t \in Targets : StopLock(p, t)
    \/ \E p \in Callers : StopBody(p)
    \/ DeliverSignal
    \/ \E h \in Handles : WatcherFire(h)
    \/ \E h \in Handles : WatcherLock(h)
    \/ \E h \in Handles : WatcherBody(h)
    \/ \E h \in Handles : BackgroundPanic(h)

Spec == Init /\ [][Next]_vars

\* The Go scheduler runs every runnable goroutine: a call of Forward or
\* StopForwarding that is under way goes on, and so does a watcher that has
\* taken a signal. sync.Mutex hands the lock to a goroutine that keeps
\* waiting for it (starvation mode), hence the strong fairness of Lock.
Fairness ==
    /\ \A p \in Callers :
          /\ SF_vars(RegisterLock(p))
          /\ WF_vars(RegisterBody(p))
          /\ WF_vars(CloseOnSigterm(p))
          /\ WF_vars(StopBody(p))
    /\ \A h \in Handles :
          /\ WF_vars(WatcherFire(h))
          /\ SF_vars(WatcherLock(h))
          /\ WF_vars(WatcherBody(h))

FairSpec == Spec /\ Fairness

\* Forward and StopForwarding with the goroutines of startForward and the
\* tunnel they drive, step by step
NextTunnel ==
    \/ \E p \in Callers : ForwardFails(p)
    \/ \E p \in Callers, t \in Targets : ForwardLaunches(p, t, MaxSessions)
    \/ \E p \in Callers : RegisterLock(p)
    \/ \E p \in Callers : RegisterBody(p)
    \/ \E p \in Callers : CloseOnSigterm(p)
    \/ \E p \in Callers, t \in Targets : StopLock(p, t)
    \/ \E p \in Callers : StopBody(p)
    \/ \E h \in Handles : LoopStart(h)
    \/ \E h \in Handles : TunnelReady(h)
    \/ \E h \in Handles : TunnelListenFails(h)
    \/ \E h \in Handles : TunnelErrOutput(h)
    \/ \E h \in Handles : MonitorCheck(h)
    \/ \E h \in Handles : LoopReturnsNil(h)
    \/ \E h \in Handles : LoopReturnsError(h)
    \/ \E h \in Handles : LoopPanic(h)

SpecTunnel == Init /\ [][NextTunnel]_vars

\* The Go scheduler runs every runnable goroutine (LoopStart, MonitorCheck,
\* LoopPanic), and a tunnel whose ForwardPorts was called either starts to
\* listen and closes readyChan, or returns an error (the local port being
\* in use is one).
FairnessTunnel ==
    \A h \in Handles :
        /\ WF_vars(LoopStart(h))
        /\ WF_vars(MonitorCheck(h))
        /\ WF_vars(LoopPanic(h))
        /\ WF_vars(TunnelReady(h) \/ TunnelListenFails(h) \/ LoopReturnsError(h))

FairTunnel == SpecTunnel /\ FairnessTunnel

(* ---------------- the registry called directly (lines 47-72) ---------- *)

\* a caller makes a fresh channel and enters
\* registerForwarding(namespace, podOrService, stopCh)
RegisterCall(p, t) ==
    /\ procState = "running"
    /\ pc[p] = "idle"
    /\ nextCh < MaxRegisters
    /\ nextCh' = nextCh + 1
    /\ chPair' = [chPair EXCEPT ![nextCh + 1] = t]
    /\ arg' = [arg EXCEPT ![p] = t]
    /\ myCh' = [myCh EXCEPT ![p] = nextCh + 1]
    /\ pc' = [pc EXCEPT ![p] = "register"]
    /\ UNCHANGED <<registry, history, errorHandlers, procState, tasks,
                   watchers, resolve, dial>>

\* registerForwarding, lines 54-59, and its return to the caller
RegisterReturn(p) ==
    /\ procState = "running"
    /\ pc[p] = "registerCS"
    /\ registerForwarding(ArgKey(p), myCh[p])
    /\ regSeq' = [regSeq EXCEPT ![ArgKey(p)] = Append(@, myCh[p])]
    /\ stopRun' = [stopRun EXCEPT ![ArgKey(p)] = 0]
    /\ pc' = [pc EXCEPT ![p] = "idle"]
    /\ arg' = [arg EXCEPT ![p] = NoPair]
    /\ myCh' = [myCh EXCEPT ![p] = NoHandle]
    /\ UNCHANGED <<errorHandlers, channels, tasks, watchers, replacing,
                   resolve, dial>>

\* StopForwarding, lines 68-72, and its return to the caller
StopReturn(p) ==
    /\ procState = "running"
    /\ pc[p] = "stopCS"
    /\ StopForwarding(ArgKey(p))
    /\ regSeq' = [regSeq EXCEPT ![ArgKey(p)] = <<>>]
    /\ stopRun' = [stopRun EXCEPT ![ArgKey(p)] = Min(@ + 1, 2)]
    /\ pc' = [pc EXCEPT ![p] = "idle"]
    /\ arg' = [arg EXCEPT ![p] = NoPair]
    /\ UNCHANGED <<errorHandlers, myCh, channels, tasks, watchers, replacing,
                   resolve, dial>>

\* concurrent callers of registerForwarding and StopForwarding
NextRegistry ==
    \/ \E p \in Callers, t \in RegPairs : RegisterCall(p, t)
    \/ \E p \in Callers : RegisterLock(p)
    \/ \E p \in Callers : RegisterReturn(p)
    \/ \E p \in Callers, t \in RegPairs : StopLock(p, t)
    \/ \E p \in Callers : StopReturn(p)

SpecRegistry == Init /\ [][NextRegistry]_vars

(* ------------------- prepareForward on its own ------------------------ *)

\* what kubernetes.NewForConfig and the two Gets answer, and the name asked
ResolveInputs ==
    [clientErr : ClientsetErrors, svcErr : LookupErrors, podErr : LookupErrors,
     target : { t[2] : t \in Targets }]

InitResolve ==
    /\ InitProcess
    /\ resIn \in ResolveInputs
    /\ resOut = NoInput
    /\ dialIn = NoInput
    /\ dialOut = NoInput

\* prepareForward(config, namespace, podOrService), lines 150-180
Resolve ==
    /\ resOut = NoInput
    /\ resOut' = prepareForward(resIn.clientErr, resIn.svcErr, resIn.podErr,
                                resIn.target)
    /\ UNCHANGED <<registry, history, errorHandlers, procState, callers,
                   channels, tasks, watchers, resIn, dial>>

SpecResolve == InitResolve /\ [][Resolve]_vars

(* ---------------------- newDialer on its own -------------------------- *)

\* what spdy.RoundTripperFor answers, the cluster host of the configuration
\* and the target
DialInputs ==
    [rtErr : {Nil, ErrTLS}, authority : Authorities, prefix : Prefixes,
     target : Targets, resType : ResTypes]

InitDial ==
    /\ InitProcess
    /\ resIn = NoInput
    /\ resOut = NoInput
    /\ dialIn \in DialInputs
    /\ dialOut = NoInput

\* newDialer(config, namespace, resType, podOrService), lines 183-203
Dial ==
    /\ dialOut = NoInput
    /\ dialOut' = newDialer(dialIn.rtErr,
                            ClusterHost(dialIn.authority, dialIn.prefix),
                            dialIn.target[1], dialIn.resType,
                            dialIn.target[2])
    /\ UNCHANGED <<registry, history, errorHandlers, procState, callers,
                   channels, tasks, watchers, resolve, dialIn>>

SpecDial == InitDial /\ [][Dial]_vars

(* ============================ properties ============================== *)

\* a channel that registerForwarding has stored (directly called)
Registered(h) == h <= nextCh /\ \A p \in Callers : myCh[p] # h

\* C1: for any key, after N >= 1 registerForwarding calls in a row with fresh
\* channels (no StopForwarding of the key in between), the registry holds
\* the last channel under the key, that channel is not closed, and every
\* earlier one has been closed exactly once.
C1_LastRegisteredIsLive ==
    \A k \in AllKeys :
        regSeq[k] # <<>> =>
            /\ k \in DOMAIN activeForwards
            /\ activeForwards[k] = Last(regSeq[k])
            /\ closeCalls[Last(regSeq[k])] = 0
            /\ \A i \in 1..(Len(regSeq[k]) - 1) : closeCalls[regSeq[k][i]] = 1
            /\ \A i, j \in 1..Len(regSeq[k]) : i # j => regSeq[k][i] # regSeq[k][j]

\* three registerForwarding calls in a row on one key have returned
C1_Witness ==
    \E k \in AllKeys :
        /\ Len(regSeq[k]) = 3
        /\ \A p \in Callers : pc[p] = "idle"

\* C2: StopForwarding of a key with no entry changes nothing (no channel is
\* closed, the map is the same, no panic); StopForwarding always leaves the
\* key absent; and no channel is ever closed twice, so two calls in a row
\* close the registered channel at most once.
C2_StopIdempotent ==
    /\ [](\A h \in Handles : closeCalls[h] <= 1)
    /\ [][\A p \in Callers :
            (pc[p] = "stopCS" /\ pc'[p] = "idle") =>
                /\ ArgKey(p) \notin DOMAIN activeForwards'
                /\ (ArgKey(p) \notin DOMAIN activeForwards =>
                        /\ activeForwards' = activeForwards
                        /\ closeCalls' = closeCalls
                        /\ procState' = procState)]_vars

\* StopForwarding ran twice in a row on a key whose channel the first run
\* closed
C2_Witness ==
    \E k \in AllKeys :
        /\ stopRun[k] = 2
        /\ \E h \in Handles : chPair[h] # NoPair /\ ChKey(h) = k /\ closeCalls[h] = 1
        /\ procState = "running"

\* C4: under any interleaving of registerForwarding and StopForwarding calls,
\* no channel is stored under two keys, a stored channel is neither closed
\* nor superseded (it is the one registered last under its key), and every
\* channel that was registered and is no longer in the map has been closed.
C4_NoStaleNoDangling ==
    /\ \A k1, k2 \in DOMAIN activeForwards :
          activeForwards[k1] = activeForwards[k2] => k1 = k2
    /\ \A k \in DOMAIN activeForwards :
          /\ closeCalls[activeForwards[k]] = 0
          /\ regSeq[k] # <<>>
          /\ activeForwards[k] = Last(regSeq[k])
    /\ \A h \in Handles :
          (Registered(h) /\ ~InMap(activeForwards, h)) => closeCalls[h] = 1

\* two callers are inside registerForwarding / StopForwarding at once, while
\* one channel is live in the map and another has been replaced or stopped
C4_Witness ==
    /\ \A p \in Callers : pc[p] # "idle"
    /\ \E p, q \in Callers : pc[p] = "stopCS" /\ pc[q] = "register"
    /\ \E h \in Handles : Registered(h) /\ InMap(activeForwards, h)
    /\ \E h \in Handles : Registered(h) /\ ~InMap(activeForwards, h)

\* C6: registerForwarding or StopForwarding on one (namespace, name) pair
\* neither closes nor removes nor replaces the entry of a channel that was
\* registered for a different pair.
C6_OtherPairUntouched ==
    [][\A p \in Callers :
         (pc[p] \in {"registerCS", "stopCS"} /\ pc'[p] = "idle") =>
             \A h \in Handles :
                 (/\ Registered(h)
                  /\ chPair[h] # arg[p]
                  /\ InMap(activeForwards, h)) =>
                     /\ closeCalls'[h] = closeCalls[h]
                     /\ InMap(activeForwards', h)]_vars

\* the sessions of a key whose goroutines were started and whose stop channel
\* has not been closed
ActiveSessions(k) ==
    { h \in Handles : loop[h] # "none" /\ ChKey(h) = k /\ closeCalls[h] = 0 }

\* C3: in every reachable state there is at most one session per key whose
\* background goroutines have been started and whose stop channel has not
\* been closed.
C3_AtMostOneActivePerKey ==
    \A k \in AllKeys : Cardinality(ActiveSessions(k)) <= 1

\* C5: no stop channel is closed a second time, whatever Forward calls,
\* StopForwarding calls and signal watchers (several for one key included) do.
C5_NoDoubleClose ==
    \A h \in Handles : closeCalls[h] <= 1

\* two watchers of the same key have both run StopForwarding, a caller has
\* called it too, and both sessions' channels are closed
C5_Witness ==
    \E h1, h2 \in Handles :
        /\ h1 # h2
        /\ watcher[h1] = "done" /\ watcher[h2] = "done"
        /\ ChKey(h1) = ChKey(h2)
        /\ closeCalls[h1] = 1 /\ closeCalls[h2] = 1
        /\ \E p \in Callers : pc[p] = "stopCS" /\ ArgKey(p) = ChKey(h1)

\* C7: whenever Forward returns an error, the registry is unchanged, no
\* channel was closed, no goroutine was started, no watcher was attached
\* and no other process-wide state (runtime.ErrorHandlers) was modified.
C7_FailsWithoutSideEffects ==
    [][\A p \in Callers :
         ForwardFails(p) =>
             UNCHANGED <<activeForwards, closeCalls, loop, monitor, watcher,
                         errorHandlers>>]_vars

\* the watchers attached for a key
WatchersOf(k) == { h \in Handles : watcher[h] # "none" /\ ChKey(h) = k }

\* C9: when one session was registered through Forward for a key and a
\* termination signal is delivered after that, the watcher invokes
\* StopForwarding exactly once, and for that key: never more than once,
\* with no other key, and after the signal the watcher either has made the
\* call or holds the signal and can take the step that makes it.
C9_SignalStopsOnce ==
    \A h \in Handles :
        (watcher[h] # "none" /\ WatchersOf(ChKey(h)) = {h}) =>
            /\ Len(stopInvoked[h]) <= 1
            /\ \A i \in 1..Len(stopInvoked[h]) : stopInvoked[h][i] = ChKey(h)
            /\ (watcher[h] \in {"stop", "stopCS", "done"}
                    <=> Len(stopInvoked[h]) = 1)
            /\ (delivered[h] => watcher[h] \in {"ready", "stop", "stopCS", "done"})
            /\ (watcher[h] = "ready" /\ procState = "running"
                    => ENABLED WatcherFire(h))

\* the only watcher of a key has run StopForwarding, which closed the
\* session's channel and removed the entry
C9_Witness ==
    \E h \in Handles :
        /\ watcher[h] = "done"
        /\ delivered[h]
        /\ WatchersOf(ChKey(h)) = {h}
        /\ stopInvoked[h] = <<ChKey(h)>>
        /\ closeCalls[h] = 1
        /\ ChKey(h) \notin DOMAIN activeForwards
        /\ procState = "running"

\* C8: after Forward has started the goroutines, if ForwardPorts returns an
\* error, or the tunnel writes error output at any time, the process is
\* eventually terminated by a panic.
C8_FaultsTerminate ==
    \A h \in Handles :
        (loop[h] = "failed" \/ errOut[h]) ~> (procState = "panicked")

\* the lookup reports that the object does not exist (the API's NotFound)
IsNotFound(err) == err.reason = "NotFound"

\* C10: the service lookup is tried first and its success gives "services"
\* with no pod lookup; if it reports not-found the pod lookup is tried and
\* its success gives "pods"; if both report not-found the result is the
\* error "no service or pod with name <target> found"; any lookup error that
\* is not a not-found condition is returned unchanged and ends the resolution.
C10_ResolutionPrecedence ==
    (resOut # NoInput /\ resIn.clientErr = Nil) =>
        /\ resIn.svcErr = Nil =>
              /\ resOut.resType = "services" /\ resOut.err = Nil
              /\ resOut.lookups = <<"services">>
        /\ (resIn.svcErr # Nil /\ ~IsNotFound(resIn.svcErr)) =>
              /\ resOut.resType = "" /\ resOut.err = resIn.svcErr
              /\ resOut.lookups = <<"services">>
        /\ (IsNotFound(resIn.svcErr) /\ resIn.podErr = Nil) =>
              /\ resOut.resType = "pods" /\ resOut.err = Nil
              /\ resOut.lookups = <<"services", "pods">>
        /\ (IsNotFound(resIn.svcErr) /\ resIn.podErr # Nil
                /\ ~IsNotFound(resIn.podErr)) =>
              /\ resOut.resType = "" /\ resOut.err = resIn.podErr
        /\ (IsNotFound(resIn.svcErr) /\ IsNotFound(resIn.podErr)) =>
              /\ resOut.resType = ""
              /\ resOut.err = NoServiceOrPod(resIn.target)

\* C11: for every cluster host "https://<authority>" or
\* "https://<authority>/<prefix>", the URL newDialer builds has the host
\* segment <authority>, and its path is "/<prefix>" (when there is a prefix)
\* followed by /api/v1/namespaces/{namespace}/{targetKind}/{targetName}/portforward.
C11_TunnelURL ==
    (dialOut # NoInput /\ dialIn.rtErr = Nil) =>
        /\ dialOut.err = Nil
        /\ dialOut.Host = dialIn.authority
        /\ dialOut.Path =
              (IF dialIn.prefix = NoPrefix THEN <<>> ELSE <<"/">> \o dialIn.prefix)
                  \o PortforwardPath(dialIn.target[1], dialIn.resType,
                                     dialIn.target[2])

\* C12: if a termination signal is delivered (and caught by the process)
\* while a session's stop channel is in the registry, the time between a
\* Forward call's registerForwarding and its closeOnSigterm included, then
\* that channel is eventually closed and its entry removed (or the process
\* has ended).
C12_SignalReachesRegistered ==
    \A h \in Handles :
        caught[h] ~> \/ (closeCalls[h] >= 1 /\ ~InMap(activeForwards, h))
                     \/ procState # "running"

\* C13: when Forward is called for a key that has a live session on the
\* same local port, no interleaving of the new session's forward loop with
\* the teardown of the prior session makes the forward loop fail because
\* the local port is still held by the prior session.
C13_ReplaceNeverFindsPortHeld ==
    \A h \in Handles : replacing[h] => loop[h] # "portInUse"

\* C14: in every interleaving, the forward routine of a session
\* (ForwardPorts) starts after the Forward call that made the session has
\* returned: while the call is under way (lines 113-121) the session's
\* goroutine has not called ForwardPorts.
C14_ReturnsBeforeLoopStarts ==
    \A p \in Callers :
        (pc[p] \in {"register", "registerCS", "sigterm"}) =>
            loop[myCh[p]] = "started"

\* a channel that Forward has stored with registerForwarding (line 118)
ForwardRegistered(h) ==
    /\ h <= nextCh
    /\ \A p \in Callers :
          myCh[p] = h => pc[p] \notin {"register", "registerCS"}

\* C15: in every reachable state, under any interleaving of Forward,
\* StopForwarding and watcher firings, every channel stored in the registry
\* is open, and every channel that was registered and has been closed is
\* absent from the registry; a channel is closed only in the critical
\* section that takes its entry out (by removal or replacement), and an
\* entry is taken out only in a critical section that closes its channel.
C15_StoredOpenClosedAbsent ==
    /\ [](\A k \in DOMAIN activeForwards : closeCalls[activeForwards[k]] = 0)
    /\ [](\A h \in Handles :
            (ForwardRegistered(h) /\ closeCalls[h] >= 1) =>
                ~InMap(activeForwards, h))
    /\ [](\A h \in Handles :
            (ForwardRegistered(h) /\ ~InMap(activeForwards, h)) =>
                closeCalls[h] >= 1)
    /\ [][\A h \in Handles :
            (closeCalls'[h] # closeCalls[h]
                \/ (InMap(activeForwards, h) /\ ~InMap(activeForwards', h))) =>
                /\ mutex = "locked" /\ mutex' = "unlocked"
                /\ closeCalls'[h] = closeCalls[h] + 1
                /\ InMap(activeForwards, h)
                /\ ~InMap(activeForwards', h)]_vars

\* one session was stopped by its watcher (closed and absent) while another,
\* whose watcher has taken the signal too, is still stored and open
C15_Witness ==
    \E h1, h2 \in Handles :
        /\ InMap(activeForwards, h1) /\ closeCalls[h1] = 0
        /\ watcher[h1] = "ready"
        /\ ForwardRegistered(h2) /\ ~InMap(activeForwards, h2)
        /\ closeCalls[h2] = 1 /\ watcher[h2] = "done"
        /\ procState = "running"

\* the Forward call that made the channel has returned
ForwardReturned(h) == h <= nextCh /\ \A p \in Callers : myCh[p] # h

\* the channels Forward has made for a key
SessionsOf(k) == { h \in Handles : h <= nextCh /\ ChKey(h) = k }

\* a step in which the watcher of h runs StopForwarding (lines 68-72)
WatcherStops(h) == watcher[h] = "stopCS" /\ watcher'[h] = "done"

=============================================================================
